---- MODULE Spec2Model ----
(***************************************************************************)
(* Model of the redirect handler of astro.new (src/unnamed/part_000):      *)
(* get -> parseReq -> validateRef -> getRelease -> getExamples, with the   *)
(* two process-wide caches examplesCache and releaseCache.                 *)
(*                                                                         *)
(* Strings are sequences of chunks.  A chunk is a string literal that     *)
(* stands for itself; the chunks used ("/", "@", "b", "c", "d", "v1",      *)
(* "v2", "next", "latest", "main", "astro@", URL prefixes) form a          *)
(* prefix-free code, so two chunk sequences are equal exactly when the     *)
(* JavaScript strings they denote are equal.  Only "@" contains the        *)
(* character @ among the chunks a request path is built from, and only     *)
(* "/" contains a slash.                                                   *)
(*                                                                         *)
(* A request handler runs without interruption between two awaits          *)
(* (cooperative scheduling).  The interleaving points kept are the awaits  *)
(* that separate two accesses to shared state: the two fetches, and the    *)
(* resumption of get at line 169 after parseReq has returned.              *)
(***************************************************************************)
EXTENDS Integers, Sequences, FiniteSets, TLC

\* Number of requests that can be in flight at the same time.
MaxInFlight == 2

Slots == 1..MaxInFlight

\* JavaScript undefined / null for an absent string.
None == "undefined"

-----------------------------------------------------------------------------
\* String helpers (JavaScript String methods on chunk sequences).

\* String.prototype.indexOf for a one-chunk needle, 0-based, -1 when absent.
IndexOf(s, c) ==
    IF \E i \in 1..Len(s) : s[i] = c
    THEN (CHOOSE i \in 1..Len(s) : s[i] = c /\ \A j \in 1..(i - 1) : s[j] # c) - 1
    ELSE -1

\* String.prototype.split(sep): every segment between separators, in order.
RECURSIVE Split(_, _)
Split(s, sep) ==
    IF IndexOf(s, sep) = -1
    THEN <<s>>
    ELSE <<SubSeq(s, 1, IndexOf(s, sep))>>
             \o Split(SubSeq(s, IndexOf(s, sep) + 2, Len(s)), sep)

\* Array.prototype.join(sep) on an array of strings.
RECURSIVE Join(_, _)
Join(xs, sep) ==
    IF Len(xs) = 0 THEN <<>>
    ELSE IF Len(xs) = 1 THEN xs[1]
    ELSE xs[1] \o sep \o Join(Tail(xs), sep)

\* path.replace(/^\//, ""): at most one leading slash is removed.
StripLeadingSlash(s) == IF Len(s) > 0 /\ Head(s) = "/" THEN Tail(s) ELSE s

-----------------------------------------------------------------------------
\* Platforms.

PLATFORMS == {"stackblitz", "codesandbox", "netlify", "github", "gitpod"}

isPlatform(name) == name \in PLATFORMS

\* Mutant: the default platform is github.
PlatformOfGithub(on) == IF on = None THEN "github" ELSE on

\* Mutant: on || "stackblitz", which also replaces the empty string.
PlatformOfOr(on) == IF on \in {None, ""} THEN "stackblitz" ELSE on

\* context.url.searchParams.get("on") ?? "stackblitz"
PlatformOf(on) == IF on = None THEN "stackblitz" ELSE on

-----------------------------------------------------------------------------
\* Requests.  pathname is context.url.pathname, on is the "on" query
\* parameter (None when the query has none).

\* Mutant: the root is taken to be the empty pathname.
IsRootEmpty(pathname) == pathname = <<>>

\* context.url.pathname === "/"
IsRoot(pathname) == pathname = <<"/">>

\* context.params.rest of the route /[...rest]: the pathname without its
\* leading slash.
RestOf(pathname) == Tail(pathname)

\* const path = context.params.rest?.replace(/^\//, "") ?? ""
PathOf(pathname) == StripLeadingSlash(RestOf(pathname))

\* The template/ref split of parseReq: value starts as {ref: "latest",
\* template: path}; with an "@" in the path, the first two segments of
\* path.split("@") become template and ref.
SplitReq(path) ==
    IF IndexOf(path, "@") > -1
    THEN LET parts == Split(path, "@")
         IN [hasRef |-> TRUE, template |-> parts[1], ref |-> parts[2]]
    ELSE [hasRef |-> FALSE, template |-> path, ref |-> <<"latest">>]

\* if (!ref || !template) throw: an empty string is falsy.
IsMalformed(path) ==
    /\ SplitReq(path).hasRef
    /\ (SplitReq(path).ref = <<>> \/ SplitReq(path).template = <<>>)

\* Mutant: only "latest" is exempt from the release lookup.
IsMovingRefLatestOnly(name) == name = <<"latest">>

\* validateRef's first test: "next" and "latest" need no release lookup.
IsMovingRef(name) == name = <<"next">> \/ name = <<"latest">>

\* Mutant: the raw ref is used as the listing key.
NormalizeRefRaw(ref) == ref

\* The listing key parseReq returns in value.ref.
NormalizeRef(ref) ==
    IF ref = <<"next">> THEN <<"main">>
    ELSE IF ref = <<"latest">> THEN <<"latest">>
    ELSE <<"astro@">> \o ref

\* value.ref of a request whose parse succeeds.
KeyOf(path) ==
    IF SplitReq(path).hasRef THEN NormalizeRef(SplitReq(path).ref)
    ELSE <<"latest">>

-----------------------------------------------------------------------------
\* Error messages thrown inside the try block and logged by get.

UnsupportedPlatformMsg ==
    <<"Unsupported \"on\" query! Supported platforms are:\n  - ",
      "stackblitz", "\n  - ", "codesandbox", "\n  - ", "netlify", "\n  - ",
      "github", "\n  - ", "gitpod">>

MalformedReferenceMsg == <<"why have you forsaken me">>

InvalidReferenceMsg(name) ==
    <<"Invalid version \"">> \o name
        \o <<"\"! Supported versions are \"next\", \"latest\", or any <a href=\"https://github.com/withastro/astro/releases?q=astro%40\">GitHub release</a>.">>

UpstreamFormatMsg == <<"Unable to fetch templates from GitHub">>

\* A rejected fetch, or a body that is not JSON.
FetchFailedMsg == <<"fetch failed">>

-----------------------------------------------------------------------------
\* Responses.

NoResp == [status |-> 0, location |-> <<>>, body |-> <<>>, logged |-> <<>>]

\* context.redirect(url)
Redirect(url) == [status |-> 302, location |-> url, body |-> <<>>, logged |-> <<>>]

InternalErrorBody == <<"An internal error occurred">>

\* Mutant: the catch block logs the error and returns no response.
InternalErrorNone(msg) ==
    [status |-> 0, location |-> <<>>, body |-> <<>>, logged |-> msg]

\* Mutant: the response body carries the message of the error.
InternalErrorLeaks(msg) ==
    [status |-> 500, location |-> <<>>, body |-> msg, logged |-> msg]

\* catch (error) { console.error(error); return new Response(..., 500) }
InternalError(msg) ==
    [status |-> 500, location |-> <<>>, body |-> InternalErrorBody, logged |-> msg]

\* Mutant: the names are listed last to first.
NamesOfReversed(examples) ==
    [i \in 1..Len(examples) |-> examples[Len(examples) + 1 - i].name]

\* examples.map((x) => x.name)
NamesOf(examples) == [i \in 1..Len(examples) |-> examples[i].name]

NotFound(template, examples) ==
    [status |-> 404, location |-> <<>>,
     body |-> <<"Unable to find ">> \o template
                  \o <<"! Supported templates are:\n  - ">>
                  \o Join(NamesOf(examples), <<"\n  - ">>),
     logged |-> <<>>]

-----------------------------------------------------------------------------
\* getExamples: the entries built from an upstream directory listing.

NetlifyUrl == <<"https://astro.build">>

\* Mutant: the netlify URL is built per template.
EntryNetlifyPerTemplate(ref, example) ==
    [name |-> example.name,
     github |-> example.html_url,
     netlify |-> <<"https://app.netlify.com/start/deploy?repository=https://github.com/withastro/astro/tree/">>
                        \o ref \o <<"/examples/">> \o example.name,
     stackblitz |-> <<"https://stackblitz.com/github/withastro/astro/tree/">>
                        \o ref \o <<"/examples/">> \o example.name,
     codesandbox |-> <<"https://codesandbox.io/p/sandbox/github/withastro/astro/tree/">>
                        \o ref \o <<"/examples/">> \o example.name,
     gitpod |-> <<"https://gitpod.io/#https://github.com/withastro/astro/tree/">>
                        \o ref \o <<"/examples/">> \o example.name]

\* Mutant: the github URL is synthesized like the others.
EntryGithubTree(ref, example) ==
    [name |-> example.name,
     github |-> <<"https://github.com/withastro/astro/tree/">>
                        \o ref \o <<"/examples/">> \o example.name,
     netlify |-> NetlifyUrl,
     stackblitz |-> <<"https://stackblitz.com/github/withastro/astro/tree/">>
                        \o ref \o <<"/examples/">> \o example.name,
     codesandbox |-> <<"https://codesandbox.io/p/sandbox/github/withastro/astro/tree/">>
                        \o ref \o <<"/examples/">> \o example.name,
     gitpod |-> <<"https://gitpod.io/#https://github.com/withastro/astro/tree/">>
                        \o ref \o <<"/examples/">> \o example.name]

\* One CachedExample: lines 53-60.
Entry(ref, example) ==
    [name |-> example.name,
     github |-> example.html_url,
     netlify |-> NetlifyUrl,
     stackblitz |-> <<"https://stackblitz.com/github/withastro/astro/tree/">>
                        \o ref \o <<"/examples/">> \o example.name,
     codesandbox |-> <<"https://codesandbox.io/p/sandbox/github/withastro/astro/tree/">>
                        \o ref \o <<"/examples/">> \o example.name,
     gitpod |-> <<"https://gitpod.io/#https://github.com/withastro/astro/tree/">>
                        \o ref \o <<"/examples/">> \o example.name]

\* flatMap's test: an entry with size > 0 contributes nothing.
IsKept(example) == ~(example.size > 0)

\* examples.flatMap(...)
Values(ref, examples) ==
    LET kept == SelectSeq(examples, IsKept)
    IN [i \in 1..Len(kept) |-> Entry(ref, kept[i])]

\* examples.find((x) => x.name === template): index of the first match, 0
\* when find returns undefined.
FindIndex(examples, template) ==
    IF \E i \in 1..Len(examples) : examples[i].name = template
    THEN CHOOSE i \in 1..Len(examples) :
            /\ examples[i].name = template
            /\ \A j \in 1..(i - 1) : examples[j].name # template
    ELSE 0

\* Lines 172-182 of get: the response once the listing is at hand.
Resolve(examples, template, platform) ==
    IF FindIndex(examples, template) = 0
    THEN NotFound(template, examples)
    ELSE Redirect(examples[FindIndex(examples, template)][platform])

-----------------------------------------------------------------------------
\* Maps (JavaScript Map: has, get, set).

EmptyMap == [k \in {} |-> <<>>]

MapHas(m, k) == k \in DOMAIN m

MapSet(m, k, v) == [x \in (DOMAIN m) \cup {k} |-> IF x = k THEN v ELSE m[x]]

\* Mutant: the cache is not consulted.
IsCachedNever(m, k) == FALSE

\* Mutant: an empty listing counts as not cached (if (existing?.length)).
IsCachedNonEmpty(m, k) == k \in DOMAIN m /\ Len(m[k]) > 0

\* getExamples: const existing = examplesCache.get(ref); if (existing).
\* An array, also an empty one, is truthy.
IsCached(m, k) == MapHas(m, k)

\* Mutant: only a found release counts as cached (if (releaseCache.get(ref))).
HasReleaseFound(m, ref) == ref \in DOMAIN m /\ m[ref] # "null"

\* getRelease: releaseCache.has(ref)
HasRelease(m, ref) == MapHas(m, ref)

\* Mutant: a not-found release is not stored.
StoreReleaseFoundOnly(m, ref, rel) == IF rel = "null" THEN m ELSE MapSet(m, ref, rel)

\* getRelease: releaseCache.set(ref, release)
StoreRelease(m, ref, rel) == MapSet(m, ref, rel)

\* Mutant: insert-if-absent, the first write wins.
StoreExamplesIfAbsent(m, ref, values) ==
    IF ref \in DOMAIN m THEN m ELSE MapSet(m, ref, values)

\* getExamples: examplesCache.set(ref, values)
StoreExamples(m, ref, values) == MapSet(m, ref, values)

-----------------------------------------------------------------------------
\* The upstream: what a call can answer.

UpstreamEntry(n, sz) == [name |-> <<n>>, size |-> sz, html_url |-> <<"https://x/", n>>]

\* JSON arrays the list-directory endpoint can answer with.
ListArrays ==
    { <<>>,
      <<UpstreamEntry("c", 0), UpstreamEntry("README.md", 42), UpstreamEntry("b", 0)>> }

\* A payload is an array, or an object such as a rate-limit message.
ListPayloads ==
    {[isArray |-> TRUE, items |-> a] : a \in ListArrays}
        \cup {[isArray |-> FALSE, items |-> <<>>]}

\* A listing with an entry whose size is below zero, which the declared
\* type (size: number) admits.
SeqListArrays ==
    ListArrays \cup { <<UpstreamEntry("e", -1), UpstreamEntry("b", 0)>> }

SeqListPayloads ==
    {[isArray |-> TRUE, items |-> a] : a \in SeqListArrays}
        \cup {[isArray |-> FALSE, items |-> <<>>]}

\* Mutant: the payload is taken to be an array without a test.
IsArrayAlways(payload) == TRUE

\* Array.isArray(examples)
IsArray(payload) == payload.isArray

\* Mutant: validateRef accepts every release.
IsValidAlways(rel) == TRUE

\* validateRef: release !== null.  "none" is the local of a request whose
\* ref needs no release lookup, for which validateRef has returned true.
IsValid(rel) == rel # "null"

\* HTTP statuses of the get-release-by-tag endpoint.
ReleaseStatuses == {200, 404, 403}

\* Mutant: only a 404 counts as not-found.
ReleaseOfNot404(status) == IF status = 404 THEN "null" ELSE "found"

\* .then((res) => (res.status === 200 ? res.json() : null))
ReleaseOf(status) == IF status = 200 THEN "found" ELSE "null"

-----------------------------------------------------------------------------
\* Inputs.

\* "vercel" and the empty string (?on=) are not platforms.
OnValues == PLATFORMS \cup {None, "vercel", ""}

Pathnames ==
    { <<"/">>,
      <<"/", "b">>,
      <<"/", "d">>,
      <<"/", "b", "@", "latest">>,
      <<"/", "b", "@", "next">>,
      <<"/", "b", "@", "v1">>,
      <<"/", "b", "@">>,
      <<"/", "b", "@", "v1", "@", "next">> }

\* The requests of SpecSeq, where one request is served at a time.
SeqRequests == [pathname : Pathnames, on : OnValues]

\* The requests of Spec, where requests overlap: they meet on one release
\* ref and on one listing key.
Requests == [pathname : { <<"/", "b", "@", "v1">> }, on : {None, "vercel"}]

NoReq == [pathname |-> <<>>, on |-> None]

\* The raw ref, the template and the listing key of a request.
RefOf(r) == SplitReq(PathOf(r.pathname)).ref
TemplateOf(r) == SplitReq(PathOf(r.pathname)).template
ListKeyOf(r) == KeyOf(PathOf(r.pathname))

\* parseReq throws before it reaches validateRef.
ParseThrows(r) ==
    ~isPlatform(PlatformOf(r.on)) \/ IsMalformed(PathOf(r.pathname))

\* The request reaches validateRef with a ref that needs a release lookup.
NeedsRelease(r) ==
    /\ ~IsRoot(r.pathname)
    /\ ~ParseThrows(r)
    /\ SplitReq(PathOf(r.pathname)).hasRef
    /\ ~IsMovingRef(RefOf(r))

-----------------------------------------------------------------------------
VARIABLES
    examplesCache,  \* Map<string, CachedExample[]>
    releaseCache,   \* Map ref -> "found" | "null"
    pc,             \* per slot: where its request stands
    req,            \* per slot: the request it serves
    release,        \* per slot: validateRef's local release ("none" before)
    examples,       \* per slot: get's local examples (<<>> before)
    resp,           \* per slot: the response get returned
    relCalls,       \* per slot: release lookups its request has issued
    listCalls,      \* per slot: list-directory calls its request has issued
    log,            \* history of the completed upstream calls
    hist            \* per slot: history of its request

vars == <<examplesCache, releaseCache, pc, req, release, examples, resp,
          relCalls, listCalls, log, hist>>

\* log.relFirstDone: refs whose first release lookup has been answered or has failed
\* log.relFirstNull: refs whose first release lookup was answered not-found
\* log.relFound:     refs some release lookup was answered found for
\* log.listFirstDone: keys whose first list-directory call has completed
NoLog == [relFirstDone |-> {}, relFirstNull |-> {}, relFound |-> {}, listFirstDone |-> {}]

\* hist[s].firstRel:  its release lookup is the first one issued for its ref
\* hist[s].firstList: its list-directory call is the first one issued for its key
\* hist[s].afterNull: it started after the first lookup for its ref was answered not-found
\* hist[s].afterFound: it started after some lookup for its ref was answered found
\* hist[s].afterFirstList: it started after the first list-directory call for its key completed
\* hist[s].cachedAtStart: the listing of its key was cached when it started
\* hist[s].gotListing: getExamples has returned a listing to get
\* hist[s].relStatus: the HTTP status its release lookup was answered with
\* hist[s].nonArray: its list-directory call was answered with a non-array
\* hist[s].items: the array its list-directory call was answered with
NoHist ==
    [firstRel |-> FALSE, firstList |-> FALSE, afterNull |-> FALSE,
     afterFound |-> FALSE, afterFirstList |-> FALSE, cachedAtStart |-> FALSE,
     gotListing |-> FALSE, relStatus |-> 0, nonArray |-> FALSE, items |-> <<>>]

Init ==
    /\ examplesCache = EmptyMap
    /\ releaseCache = EmptyMap
    /\ pc = [s \in Slots |-> "idle"]
    /\ req = [s \in Slots |-> NoReq]
    /\ release = [s \in Slots |-> "none"]
    /\ examples = [s \in Slots |-> <<>>]
    /\ resp = [s \in Slots |-> NoResp]
    /\ relCalls = [s \in Slots |-> 0]
    /\ listCalls = [s \in Slots |-> 0]
    /\ log = NoLog
    /\ hist = [s \in Slots |-> NoHist]

\* The request of slot s ends with response r.
Respond(s, r) ==
    /\ pc' = [pc EXCEPT ![s] = "done"]
    /\ resp' = [resp EXCEPT ![s] = r]

\* getExamples has returned the cached listing xs to slot s: lines 172-182.
RespondWith(s, xs) ==
    /\ examples' = [examples EXCEPT ![s] = xs]
    /\ hist' = [hist EXCEPT ![s].gotListing = TRUE]
    /\ Respond(s, Resolve(xs, TemplateOf(req[s]), PlatformOf(req[s].on)))

\* What the history records when request r starts in slot s.
StartHist(s, r) ==
    IF IsRoot(r.pathname) \/ ParseThrows(r)
    THEN NoHist
    ELSE [NoHist EXCEPT
            !.afterNull = NeedsRelease(r) /\ RefOf(r) \in log.relFirstNull,
            !.afterFound = NeedsRelease(r) /\ RefOf(r) \in log.relFound,
            !.afterFirstList = ListKeyOf(r) \in log.listFirstDone,
            !.cachedAtStart = MapHas(examplesCache, ListKeyOf(r)),
            !.firstRel = /\ NeedsRelease(r)
                         /\ ~MapHas(releaseCache, RefOf(r))
                         /\ RefOf(r) \notin log.relFirstDone
                         /\ \A o \in Slots : ~(hist[o].firstRel /\ RefOf(req[o]) = RefOf(r))]

\* get up to its first suspension: the root shortcut, then parseReq with
\* validateRef and the cache lookup of getRelease.
ParseReq(s, r) ==
    /\ pc[s] = "idle"
    /\ req' = [req EXCEPT ![s] = r]
    /\ hist' = [hist EXCEPT ![s] = StartHist(s, r)]
    /\ UNCHANGED <<examplesCache, releaseCache, examples, listCalls, log>>
    /\ LET path == PathOf(r.pathname)
           ref == SplitReq(path).ref
       IN IF IsRoot(r.pathname)
          THEN /\ Respond(s, Redirect(<<"/", "latest">>))
               /\ UNCHANGED <<release, relCalls>>
          ELSE IF ~isPlatform(PlatformOf(r.on))
          THEN /\ Respond(s, InternalError(UnsupportedPlatformMsg))
               /\ UNCHANGED <<release, relCalls>>
          ELSE IF IsMalformed(path)
          THEN /\ Respond(s, InternalError(MalformedReferenceMsg))
               /\ UNCHANGED <<release, relCalls>>
          ELSE IF ~SplitReq(path).hasRef \/ IsMovingRef(ref)
          THEN /\ pc' = [pc EXCEPT ![s] = "parsed"]
               /\ UNCHANGED <<release, resp, relCalls>>
          ELSE IF HasRelease(releaseCache, ref)
          THEN /\ pc' = [pc EXCEPT ![s] = "parsed"]
               /\ release' = [release EXCEPT ![s] = releaseCache[ref]]
               /\ UNCHANGED <<resp, relCalls>>
          ELSE /\ pc' = [pc EXCEPT ![s] = "awaitRelease"]
               /\ relCalls' = [relCalls EXCEPT ![s] = @ + 1]
               /\ UNCHANGED <<release, resp>>

\* What the history records when the release lookup of slot s completes.
RelLog(s, outcome) ==
    [log EXCEPT
        !.relFirstDone = IF hist[s].firstRel THEN @ \cup {RefOf(req[s])} ELSE @,
        !.relFirstNull = IF hist[s].firstRel /\ outcome = "null"
                         THEN @ \cup {RefOf(req[s])} ELSE @,
        !.relFound = IF outcome = "found" THEN @ \cup {RefOf(req[s])} ELSE @]

\* The release lookup of slot s is answered with an HTTP status.
ReleaseResponse(s, status) ==
    /\ pc[s] = "awaitRelease"
    /\ releaseCache' = StoreRelease(releaseCache, RefOf(req[s]), ReleaseOf(status))
    /\ release' = [release EXCEPT ![s] = ReleaseOf(status)]
    /\ pc' = [pc EXCEPT ![s] = "parsed"]
    /\ log' = RelLog(s, ReleaseOf(status))
    /\ hist' = [hist EXCEPT ![s].relStatus = status]
    /\ UNCHANGED <<examplesCache, req, examples, resp, relCalls, listCalls>>

\* The release lookup of slot s fails: fetch rejects, or the body of a 200
\* is not JSON.
ReleaseFetchFails(s) ==
    /\ pc[s] = "awaitRelease"
    /\ Respond(s, InternalError(FetchFailedMsg))
    /\ log' = RelLog(s, "fail")
    /\ UNCHANGED <<examplesCache, releaseCache, req, release, examples,
                   relCalls, listCalls, hist>>

\* get resumes after parseReq: validateRef's verdict, then getExamples up
\* to its fetch, or the response on a cache hit.
GetExamples(s) ==
    /\ pc[s] = "parsed"
    /\ UNCHANGED <<examplesCache, releaseCache, req, release, relCalls, log>>
    /\ LET ref == ListKeyOf(req[s])
       IN IF ~IsValid(release[s])
          THEN /\ Respond(s, InternalError(InvalidReferenceMsg(RefOf(req[s]))))
               /\ UNCHANGED <<examples, listCalls, hist>>
          ELSE IF IsCached(examplesCache, ref)
          THEN /\ RespondWith(s, examplesCache[ref])
               /\ UNCHANGED listCalls
          ELSE /\ pc' = [pc EXCEPT ![s] = "awaitList"]
               /\ listCalls' = [listCalls EXCEPT ![s] = @ + 1]
               /\ hist' = [hist EXCEPT ![s].firstList =
                             /\ ref \notin log.listFirstDone
                             /\ \A o \in Slots :
                                   ~(hist[o].firstList /\ ListKeyOf(req[o]) = ref)]
               /\ UNCHANGED <<examples, resp>>

\* What the history records when the list-directory call of slot s completes.
ListLog(s) ==
    [log EXCEPT !.listFirstDone =
        IF hist[s].firstList THEN @ \cup {ListKeyOf(req[s])} ELSE @]

\* The list-directory call of slot s is answered with a JSON payload.
ListResponse(s, payload) ==
    /\ pc[s] = "awaitList"
    /\ log' = ListLog(s)
    /\ UNCHANGED <<releaseCache, req, release, relCalls, listCalls>>
    /\ LET ref == ListKeyOf(req[s])
           values == Values(ref, payload.items)
       IN IF ~IsArray(payload)
          THEN /\ Respond(s, InternalError(UpstreamFormatMsg))
               /\ hist' = [hist EXCEPT ![s].nonArray = ~payload.isArray]
               /\ UNCHANGED <<examplesCache, examples>>
          ELSE /\ examplesCache' = StoreExamples(examplesCache, ref, values)
               /\ examples' = [examples EXCEPT ![s] = values]
               /\ hist' = [hist EXCEPT ![s].gotListing = TRUE,
                                       ![s].nonArray = ~payload.isArray,
                                       ![s].items = payload.items]
               /\ Respond(s, Resolve(values, TemplateOf(req[s]), PlatformOf(req[s].on)))

\* The list-directory call of slot s fails: fetch rejects, or the body is
\* not JSON.
ListFetchFails(s) ==
    /\ pc[s] = "awaitList"
    /\ Respond(s, InternalError(FetchFailedMsg))
    /\ log' = ListLog(s)
    /\ UNCHANGED <<examplesCache, releaseCache, req, release, examples,
                   relCalls, listCalls, hist>>

\* The response has been delivered; the request-scoped data is discarded.
Finish(s) ==
    /\ pc[s] = "done"
    /\ pc' = [pc EXCEPT ![s] = "idle"]
    /\ req' = [req EXCEPT ![s] = NoReq]
    /\ release' = [release EXCEPT ![s] = "none"]
    /\ examples' = [examples EXCEPT ![s] = <<>>]
    /\ resp' = [resp EXCEPT ![s] = NoResp]
    /\ relCalls' = [relCalls EXCEPT ![s] = 0]
    /\ listCalls' = [listCalls EXCEPT ![s] = 0]
    /\ hist' = [hist EXCEPT ![s] = NoHist]
    /\ UNCHANGED <<examplesCache, releaseCache, log>>

\* Up to MaxInFlight requests overlap at the suspension points.
Next ==
    \/ \E s \in Slots, r \in Requests : ParseReq(s, r)
    \/ \E s \in Slots, status \in ReleaseStatuses : ReleaseResponse(s, status)
    \/ \E s \in Slots : ReleaseFetchFails(s)
    \/ \E s \in Slots : GetExamples(s)
    \/ \E s \in Slots, payload \in ListPayloads : ListResponse(s, payload)
    \/ \E s \in Slots : ListFetchFails(s)
    \/ \E s \in Slots : Finish(s)

Spec == Init /\ [][Next]_vars

\* A suspended request is resumed: its pending call is answered or fails,
\* or the event loop runs its continuation.
Resume(s) ==
    \/ \E status \in ReleaseStatuses : ReleaseResponse(s, status)
    \/ ReleaseFetchFails(s)
    \/ GetExamples(s)
    \/ \E payload \in ListPayloads : ListResponse(s, payload)
    \/ ListFetchFails(s)

\* Spec, when every outbound call eventually completes or fails and the
\* event loop eventually runs every continuation that is ready.
FairSpec == Spec /\ \A s \in Slots : WF_vars(Resume(s))

\* One request at a time, with every value of the "on" parameter.
NextSeq ==
    \/ \E r \in SeqRequests : ParseReq(1, r)
    \/ \E status \in ReleaseStatuses : ReleaseResponse(1, status)
    \/ ReleaseFetchFails(1)
    \/ GetExamples(1)
    \/ \E payload \in SeqListPayloads : ListResponse(1, payload)
    \/ ListFetchFails(1)
    \/ Finish(1)

SpecSeq == Init /\ [][NextSeq]_vars

-----------------------------------------------------------------------------
\* Properties.

\* The slot that takes a step, and the request that step belongs to.
Steps(s) == pc'[s] # pc[s]
Starts(s) == pc[s] = "idle" /\ pc'[s] # "idle"
StepReq(s) == IF pc[s] = "idle" THEN req'[s] ELSE req[s]

\* The request of slot s has been answered, and was not for the root.
Answered(s) == pc[s] = "done" /\ req[s].pathname # <<"/">>

\* The listing get holds for slot s has an entry named as the template asked for.
HasTemplate(s) ==
    \E i \in 1..Len(examples[s]) : examples[s][i].name = TemplateOf(req[s])

\* C1: a non-root request with ?on=p for a supported platform p (stackblitz
\* when "on" is absent) whose ref is valid and whose template is in the
\* listing of its ref is answered with a redirect to the URL stored under
\* key p of the entry named as the template.
C1_RedirectsToPlatformUrl ==
    \A s \in Slots : \A p \in {"stackblitz", "codesandbox", "netlify", "github", "gitpod"} :
        ( /\ Answered(s)
          /\ (req[s].on = p \/ (req[s].on = None /\ p = "stackblitz"))
          /\ hist[s].gotListing
          /\ HasTemplate(s) )
        => \E i \in 1..Len(examples[s]) :
              /\ examples[s][i].name = TemplateOf(req[s])
              /\ resp[s].status = 302
              /\ resp[s].location = examples[s][i][p]
              /\ resp[s].body = <<>>

C1_Witness ==
    \E s \in Slots :
        /\ Answered(s)
        /\ req[s] = [pathname |-> <<"/", "b", "@", "v1">>, on |-> "gitpod"]
        /\ resp[s].status = 302
        /\ resp[s].location =
              <<"https://gitpod.io/#https://github.com/withastro/astro/tree/",
                "astro@", "v1", "/examples/", "b">>

\* The template names a 404 body lists: the chunks after the heading,
\* without the separators.
BodyNames(body) ==
    LET heading == "! Supported templates are:\n  - "
        h == CHOOSE i \in 1..Len(body) : body[i] = heading
    IN SelectSeq(SubSeq(body, h + 1, Len(body)), LAMBDA c : c # "\n  - ")

RECURSIVE Flatten(_)
Flatten(xs) == IF xs = <<>> THEN <<>> ELSE Head(xs) \o Flatten(Tail(xs))

\* C2: when the listing was obtained and holds no entry named exactly as the
\* template (the listing may be empty), the answer is a 404, not a 500 and not
\* a redirect, whose body lists every template name of the listing, in order.
C2_NotFoundListsNames ==
    \A s \in Slots :
        (Answered(s) /\ hist[s].gotListing /\ ~HasTemplate(s))
        => /\ resp[s].status = 404
           /\ resp[s].location = <<>>
           /\ \E i \in 1..Len(resp[s].body) :
                 resp[s].body[i] = "! Supported templates are:\n  - "
           /\ BodyNames(resp[s].body)
                 = Flatten([i \in 1..Len(examples[s]) |-> examples[s][i].name])

C2_Witness ==
    \E s \in Slots :
        /\ Answered(s)
        /\ resp[s].status = 404
        /\ Len(examples[s]) = 2
        /\ BodyNames(resp[s].body) = <<"c", "b">>

\* C3: a non-root request in which parsing, validation or fetching fails is
\* answered 500 with the fixed body, which carries nothing of the error's
\* message; the only other answers are the redirect and the 404 of a
\* template that is not in the listing.
C3_FailuresAreOpaque500 ==
    \A s \in Slots :
        Answered(s)
        => /\ resp[s].status \in {302, 404, 500}
           /\ ~hist[s].gotListing => resp[s].status = 500
           /\ (req[s].on \notin {None, "stackblitz", "codesandbox", "netlify", "github", "gitpod"})
                 => resp[s].status = 500
           /\ release[s] = "null" => resp[s].status = 500
           /\ resp[s].status = 500
                 => /\ resp[s].body = <<"An internal error occurred">>
                    /\ resp[s].location = <<>>
                    /\ resp[s].logged # <<>>
                    /\ \A i \in 1..Len(resp[s].logged), j \in 1..Len(resp[s].body) :
                          resp[s].logged[i] # resp[s].body[j]
           /\ resp[s].status = 404 => hist[s].gotListing /\ ~HasTemplate(s)
           /\ resp[s].status = 302 => hist[s].gotListing /\ HasTemplate(s)

C3_Witness ==
    \E s \in Slots :
        /\ Answered(s)
        /\ release[s] = "null"
        /\ resp[s].status = 500
        /\ resp[s].logged[1] = "Invalid version \""

\* C4: a request for the path / is answered with a redirect to /latest,
\* whatever its query, with no outbound call and both caches unchanged.
C4_RootRedirectsWithoutCalls ==
    [][\A s \in Slots :
          (Starts(s) /\ req'[s].pathname = <<"/">>)
          => /\ pc'[s] = "done"
             /\ resp'[s].status = 302
             /\ resp'[s].location = <<"/", "latest">>
             /\ relCalls'[s] = 0 /\ listCalls'[s] = 0
             /\ examplesCache' = examplesCache
             /\ releaseCache' = releaseCache]_vars

C4_Witness ==
    \E s \in Slots :
        /\ pc[s] = "done"
        /\ req[s] = [pathname |-> <<"/">>, on |-> "vercel"]
        /\ resp[s].location = <<"/", "latest">>
        /\ DOMAIN examplesCache # {}

\* C5: with an "on" value that is none of the five platform names, whatever
\* the path, parseReq throws the unsupported-platform error before any
\* outbound call: no release lookup, no listing fetch, both caches unchanged.
C5_UnsupportedPlatformBeforeCalls ==
    [][\A s \in Slots :
          ( /\ Starts(s)
            /\ req'[s].pathname # <<"/">>
            /\ req'[s].on \notin {None, "stackblitz", "codesandbox", "netlify", "github", "gitpod"} )
          => /\ pc'[s] = "done"
             /\ resp'[s].status = 500
             /\ resp'[s].logged[1] = "Unsupported \"on\" query! Supported platforms are:\n  - "
             /\ {"stackblitz", "codesandbox", "netlify", "github", "gitpod"}
                    \subseteq {resp'[s].logged[i] : i \in 1..Len(resp'[s].logged)}
             /\ relCalls'[s] = 0 /\ listCalls'[s] = 0
             /\ examplesCache' = examplesCache
             /\ releaseCache' = releaseCache]_vars

C5_Witness ==
    \E s \in Slots :
        /\ pc[s] = "done"
        /\ req[s] = [pathname |-> <<"/", "b", "@", "v1">>, on |-> "vercel"]
        /\ resp[s].status = 500
        /\ relCalls[s] = 0 /\ listCalls[s] = 0
        /\ DOMAIN releaseCache = {}

\* The ref a request names explicitly is "latest" or "next".
NamesMovingRef(r) ==
    r.pathname \in { <<"/", "b", "@", "latest">>, <<"/", "b", "@", "next">> }

\* C6: validate("latest") and validate("next") succeed in every cache state,
\* issue no release lookup and add no entry to the release cache.
C6_MovingRefsNeedNoLookup ==
    [][\A s \in Slots :
          ( /\ Steps(s)
            /\ NamesMovingRef(StepReq(s))
            /\ StepReq(s).on \in {None, "stackblitz", "codesandbox", "netlify", "github", "gitpod"} )
          => /\ Starts(s) => pc'[s] = "parsed"
             /\ pc'[s] # "awaitRelease"
             /\ relCalls'[s] = 0
             /\ release'[s] = "none"
             /\ releaseCache' = releaseCache
             /\ pc'[s] = "done" => resp'[s].logged # InvalidReferenceMsg(RefOf(req[s]))]_vars

C6_Witness ==
    \E s \in Slots :
        /\ pc[s] = "done"
        /\ req[s].pathname = <<"/", "b", "@", "next">>
        /\ resp[s].status = 302
        /\ relCalls[s] = 0
        /\ DOMAIN releaseCache # {}

\* The request of slot s has reached validateRef's release lookup.
Validates(s) == pc[s] # "idle" /\ NeedsRelease(req[s])

\* validate(r) of slot s has failed with the invalid-reference error.
InvalidReference(s) ==
    /\ release[s] = "null"
    /\ pc[s] = "done" => (resp[s].status = 500 /\ resp[s].logged[1] = "Invalid version \"")

\* C7 as stated: when the lookup of the first validate(r) is answered
\* not-found, that validate fails after exactly one release lookup, and
\* every validate(r) started after that answer fails with no further lookup.
C7_AsStated ==
    \A s \in Slots :
        Validates(s)
        => /\ (hist[s].firstRel /\ release[s] = "null")
                 => (relCalls[s] = 1 /\ InvalidReference(s))
           /\ hist[s].afterNull
                 => (relCalls[s] = 0 /\ pc[s] # "awaitRelease" /\ InvalidReference(s))

\* C7, amended: as stated, for every validate(r) started after that answer
\* and before any release lookup for r has been answered found (a lookup of
\* an overlapping request that was in flight stores its answer over the
\* not-found sentinel).
C7_NegativeCaching ==
    \A s \in Slots :
        Validates(s)
        => /\ (hist[s].firstRel /\ release[s] = "null")
                 => (relCalls[s] = 1 /\ InvalidReference(s))
           /\ (hist[s].afterNull /\ ~hist[s].afterFound)
                 => (relCalls[s] = 0 /\ pc[s] # "awaitRelease" /\ InvalidReference(s))

C7_Witness ==
    \E s \in Slots :
        /\ pc[s] = "done"
        /\ hist[s].afterNull /\ ~hist[s].afterFound
        /\ relCalls[s] = 0
        /\ resp[s].status = 500
        /\ resp[s].logged = <<"Invalid version \"", "v1",
              "\"! Supported versions are \"next\", \"latest\", or any <a href=\"https://github.com/withastro/astro/releases?q=astro%40\">GitHub release</a>.">>

\* C8 as stated: once the first request that reached the listing fetch for
\* a key has completed, a request for that key started afterwards issues no
\* list-directory call.
C8_AsStated ==
    \A s \in Slots :
        (pc[s] # "idle" /\ hist[s].afterFirstList)
        => (listCalls[s] = 0 /\ pc[s] # "awaitList")

\* C8, amended: once a list-directory call for a key has completed with an
\* array, the listing is stored under the key, and a request for that key
\* started afterwards issues no list-directory call.
C8_ListingMemoized ==
    \A s \in Slots :
        /\ (pc[s] = "done" /\ listCalls[s] = 1 /\ hist[s].gotListing)
              => ListKeyOf(req[s]) \in DOMAIN examplesCache
        /\ (pc[s] # "idle" /\ hist[s].cachedAtStart)
              => (listCalls[s] = 0 /\ pc[s] # "awaitList")

C8_Witness ==
    \E s \in Slots :
        /\ pc[s] = "done"
        /\ hist[s].cachedAtStart /\ hist[s].afterFirstList
        /\ hist[s].gotListing
        /\ listCalls[s] = 0
        /\ resp[s].status = 302

\* Slot s stores a listing under key k in this step.
Writes(s, k) ==
    /\ pc[s] = "awaitList" /\ pc'[s] = "done"
    /\ hist'[s].gotListing
    /\ ListKeyOf(req[s]) = k

\* C9 as stated: a key of the listing cache that holds a value is never
\* written again and its value never changes.
C9_AsStated ==
    [][\A k \in DOMAIN examplesCache :
          /\ k \in DOMAIN examplesCache'
          /\ examplesCache'[k] = examplesCache[k]
          /\ \A s \in Slots : ~Writes(s, k)]_vars

\* C9, amended: a key once present is never removed; a list-directory call
\* for a key is issued only while the key is absent; the value of a key
\* changes only when such a call completes, which for a key that already
\* holds a value is the call of an overlapping request that started before
\* the value was stored (last write wins).
C9_WrittenOnlyByOverlappingMisses ==
    [][/\ \A k \in DOMAIN examplesCache :
             /\ k \in DOMAIN examplesCache'
             /\ examplesCache'[k] # examplesCache[k] => \E s \in Slots : Writes(s, k)
             /\ \A s \in Slots :
                   Writes(s, k) => (~hist[s].cachedAtStart /\ listCalls[s] = 1)
       /\ \A k \in (DOMAIN examplesCache') \ (DOMAIN examplesCache) :
             \E s \in Slots : Writes(s, k)
       /\ \A s \in Slots :
             (pc[s] # "awaitList" /\ pc'[s] = "awaitList")
             => ListKeyOf(req[s]) \notin DOMAIN examplesCache]_vars

C9_Witness ==
    \E s \in Slots, o \in Slots :
        /\ s # o
        /\ pc[s] = "done" /\ pc[o] = "done"
        /\ ListKeyOf(req[s]) = ListKeyOf(req[o])
        /\ listCalls[s] = 1 /\ listCalls[o] = 1
        /\ hist[s].gotListing /\ hist[o].gotListing
        /\ examples[s] # examples[o]
        /\ examplesCache[ListKeyOf(req[s])] = examples[s]

\* C10 as stated: with an "@" in the path, template is what precedes the
\* first "@" and ref is all that follows it, and the parse fails as
\* malformed exactly when one of the two is empty; without "@", template is
\* the whole path and ref is "latest".
C10_SplitAtFirstAt ==
    \A s \in Slots :
        ( /\ pc[s] # "idle"
          /\ req[s].pathname # <<"/">>
          /\ req[s].on \in {None, "stackblitz", "codesandbox", "netlify", "github", "gitpod"} )
        => LET path == SubSeq(req[s].pathname, 2, Len(req[s].pathname))
               ats == {i \in 1..Len(path) : path[i] = "@"}
               first == CHOOSE i \in ats : \A j \in ats : i <= j
               before == SubSeq(path, 1, first - 1)
               after == SubSeq(path, first + 1, Len(path))
               malformed == /\ pc[s] = "done"
                            /\ resp[s].logged = <<"why have you forsaken me">>
           IN IF ats = {}
              THEN TemplateOf(req[s]) = path /\ RefOf(req[s]) = <<"latest">>
              ELSE /\ malformed <=> (before = <<>> \/ after = <<>>)
                   /\ ~malformed
                         => (TemplateOf(req[s]) = before /\ RefOf(req[s]) = after)

\* The request of slot s names template t and ref r explicitly, as in /t@r.
NamesRef(s, r) == \E t \in {"b", "d"} : req[s].pathname = <<"/", t, "@", r>>

\* C11: for an explicit ref that passed validation the listing is looked up
\* under "main" for "next", "latest" for "latest" and "astro@<ref>" otherwise,
\* while the release cache is keyed by the raw ref; every key of the listing
\* cache is "latest", "main" or "astro@<ref>", and the release cache never
\* holds the key "next" or "latest".
C11_ListingKeysAreNormalized ==
    /\ \A k \in DOMAIN examplesCache :
          k = <<"latest">> \/ k = <<"main">> \/ (Len(k) = 2 /\ k[1] = "astro@")
    /\ <<"next">> \notin DOMAIN releaseCache
    /\ <<"latest">> \notin DOMAIN releaseCache
    /\ \A k \in DOMAIN releaseCache : k[1] # "astro@"
    /\ \A s \in Slots : \A r \in {"next", "latest", "v1"} :
          LET k == IF r = "next" THEN <<"main">>
                   ELSE IF r = "latest" THEN <<"latest">>
                   ELSE <<"astro@", r>>
          IN /\ (NamesRef(s, r) /\ hist[s].gotListing)
                   => /\ k \in DOMAIN examplesCache
                      /\ \A i \in 1..Len(examples[s]) :
                            SubSeq(examples[s][i].stackblitz, 2, Len(k) + 1) = k
             /\ (NamesRef(s, r) /\ release[s] # "none")
                   => (<<r>> \in DOMAIN releaseCache /\ k \notin DOMAIN releaseCache)

C11_Witness ==
    /\ DOMAIN examplesCache = { <<"latest">>, <<"main">>, <<"astro@", "v1">> }
    /\ DOMAIN releaseCache = { <<"v1">> }
    /\ \E s \in Slots :
          /\ pc[s] = "done"
          /\ req[s].pathname = <<"/", "b", "@", "next">>
          /\ resp[s].status = 302
          /\ resp[s].location[2] = "main"

\* C12 as stated: the entries built from an upstream array are, in upstream
\* order, one for each upstream entry whose size is 0, and none for an
\* upstream entry whose size is not 0.
C12_KeepsExactlySizeZero ==
    \A s \in Slots :
        (hist[s].gotListing /\ listCalls[s] = 1)
        => LET zero == SelectSeq(hist[s].items, LAMBDA e : e.size = 0)
           IN /\ Len(examples[s]) = Len(zero)
              /\ \A i \in 1..Len(zero) :
                    /\ examples[s][i].name = zero[i].name
                    /\ examples[s][i].github = zero[i].html_url

\* C13: for a ref other than next/latest that is not in the release cache,
\* validate succeeds exactly when the release lookup is answered with status
\* 200; any other status (404 or another) is stored as the not-found
\* sentinel and makes validate fail with the invalid-reference error.
C13_ValidIffStatus200 ==
    [][\A s \in Slots :
          /\ (pc[s] = "awaitRelease" /\ pc'[s] = "parsed")
                => /\ RefOf(req[s]) \notin {<<"next">>, <<"latest">>}
                   /\ relCalls[s] = 1
                   /\ hist'[s].relStatus # 0
                   /\ hist'[s].relStatus = 200
                         => /\ release'[s] = "found"
                            /\ releaseCache'[RefOf(req[s])] = "found"
                   /\ hist'[s].relStatus # 200
                         => /\ release'[s] = "null"
                            /\ releaseCache'[RefOf(req[s])] = "null"
          /\ (pc[s] = "parsed" /\ pc'[s] # "parsed" /\ hist[s].relStatus # 0)
                => IF hist[s].relStatus = 200
                   THEN pc'[s] = "awaitList" \/ hist'[s].gotListing
                   ELSE /\ pc'[s] = "done"
                        /\ resp'[s].status = 500
                        /\ resp'[s].logged[1] = "Invalid version \""
                        /\ resp'[s].logged[2] = RefOf(req[s])[1]
                        /\ listCalls'[s] = 0]_vars

C13_Witness ==
    \E s \in Slots :
        /\ pc[s] = "done"
        /\ hist[s].relStatus = 403
        /\ resp[s].status = 500
        /\ resp[s].logged[1] = "Invalid version \""
        /\ releaseCache[RefOf(req[s])] = "null"

\* The request of slot s was answered from the listing of ref "latest", and
\* that listing comes from an upstream array with the size-0 entry "b"
\* whose html_url is https://x/b.
LatestListsB(s) ==
    /\ Answered(s)
    /\ req[s].pathname \in { <<"/", "b", "@", "latest">>, <<"/", "b">> }
    /\ hist[s].gotListing
    /\ \E i \in 1..Len(examples[s]) : examples[s][i].name = <<"b">>
    /\ listCalls[s] = 1
          => \E i \in 1..Len(hist[s].items) :
                hist[s].items[i] =
                    [name |-> <<"b">>, size |-> 0, html_url |-> <<"https://x/", "b">>]

\* The listing of slot s has exactly one entry named "b" and none for the
\* size-42 entry README.md.
OneEntryForB(s) ==
    /\ Cardinality({i \in 1..Len(examples[s]) : examples[s][i].name = <<"b">>}) = 1
    /\ \A i \in 1..Len(examples[s]) : examples[s][i].name # <<"README.md">>

\* C14 as stated: when the upstream listing for "latest" has the size-0 entry
\* t with html_url u, the listing has exactly one entry for t, and the
\* requests /t@latest?on=github and /t are both redirected to u.
C14_AsStated ==
    \A s \in Slots :
        LatestListsB(s)
        => /\ OneEntryForB(s)
           /\ (req[s].pathname = <<"/", "b", "@", "latest">> /\ req[s].on = "github")
                 => (resp[s].status = 302 /\ resp[s].location = <<"https://x/", "b">>)
           /\ (req[s].pathname = <<"/", "b">> /\ req[s].on = None)
                 => (resp[s].status = 302 /\ resp[s].location = <<"https://x/", "b">>)

\* C14, amended: ... the requests /t@latest?on=github and /t?on=github are
\* both redirected to u; /t without an "on" parameter is redirected to the
\* stackblitz URL of t at "latest".
C14_EndToEnd ==
    \A s \in Slots :
        LatestListsB(s)
        => /\ OneEntryForB(s)
           /\ req[s].on = "github"
                 => (resp[s].status = 302 /\ resp[s].location = <<"https://x/", "b">>)
           /\ req[s].on = None
                 => /\ resp[s].status = 302
                    /\ resp[s].location =
                          <<"https://stackblitz.com/github/withastro/astro/tree/",
                            "latest", "/examples/", "b">>

C14_Witness ==
    \E s \in Slots :
        /\ LatestListsB(s)
        /\ req[s] = [pathname |-> <<"/", "b">>, on |-> "github"]
        /\ listCalls[s] = 1
        /\ Len(hist[s].items) = 3
        /\ resp[s].location = <<"https://x/", "b">>

\* C15: requests that miss the same listing key while another one is
\* fetching it are not deduplicated: each issues its own list-directory call
\* and, answered with an array, writes the key (last write wins); the value
\* it stores and the response it returns are those of a request served
\* alone with the same upstream answer.
C15_OverlappingFetchesAreIndependent ==
    [][\A s \in Slots :
          LET k == ListKeyOf(req[s])
          IN /\ ( /\ pc[s] = "parsed" /\ pc'[s] # "parsed"
                  /\ release[s] # "null"
                  /\ k \notin DOMAIN examplesCache )
                   => (pc'[s] = "awaitList" /\ listCalls'[s] = 1)
             /\ Writes(s, k)
                   => /\ listCalls[s] = 1
                      /\ examplesCache'[k] = examples'[s]
                      /\ \A j \in DOMAIN examplesCache :
                            j # k => (j \in DOMAIN examplesCache'
                                        /\ examplesCache'[j] = examplesCache[j])
                      /\ examples'[s] = Values(k, hist'[s].items)
                      /\ Len(hist'[s].items) = 0
                            => (examples'[s] = <<>> /\ resp'[s].status = 404)
                      /\ ( /\ Len(hist'[s].items) = 3
                           /\ req[s] = [pathname |-> <<"/", "b", "@", "v1">>, on |-> None] )
                            => /\ NamesOf(examples'[s]) = << <<"c">>, <<"b">> >>
                               /\ resp'[s].status = 302
                               /\ resp'[s].location =
                                     <<"https://stackblitz.com/github/withastro/astro/tree/",
                                       "astro@", "v1", "/examples/", "b">>]_vars

C15_Witness ==
    \E s \in Slots, o \in Slots :
        /\ s # o
        /\ pc[s] = "done" /\ pc[o] = "done"
        /\ ListKeyOf(req[s]) = ListKeyOf(req[o])
        /\ ~hist[s].cachedAtStart /\ ~hist[o].cachedAtStart
        /\ listCalls[s] = 1 /\ listCalls[o] = 1
        /\ hist[s].gotListing /\ hist[o].gotListing
        /\ resp[s].status = 302 /\ resp[o] = resp[s]
        /\ examplesCache[ListKeyOf(req[s])] = examples[o]

\* C16: a request with an explicit ref r other than next/latest issues its
\* listing fetch for "astro@r" only after the release lookup for r has been
\* answered as found, by the upstream or by the release cache; when
\* validation fails the request issues no listing fetch and leaves the
\* listing cache unchanged.
C16_ParseValidateThenListing ==
    [][\A s \in Slots :
          (Steps(s) /\ NeedsRelease(StepReq(s)))
          => /\ (pc'[s] = "awaitList" \/ listCalls'[s] > 0 \/ hist'[s].gotListing)
                   => /\ release'[s] = "found"
                      /\ relCalls'[s] = 1 \/ hist'[s].relStatus = 0
                      /\ ListKeyOf(req'[s]) = <<"astro@">> \o RefOf(req'[s])
             /\ pc'[s] = "awaitRelease" => listCalls'[s] = 0
             /\ (release[s] # "found" /\ pc[s] # "idle")
                   => examplesCache' = examplesCache
             /\ release'[s] = "null"
                   => /\ listCalls'[s] = 0
                      /\ pc'[s] \in {"parsed", "done"}
                      /\ ~hist'[s].gotListing
                      /\ examplesCache' = examplesCache]_vars

C16_Witness ==
    \E s \in Slots :
        /\ pc[s] = "awaitList"
        /\ release[s] = "found"
        /\ relCalls[s] = 0
        /\ \E o \in Slots : pc[o] = "done" /\ release[o] = "null" /\ listCalls[o] = 0
        /\ DOMAIN examplesCache = {}

\* C17: when the list-directory call for key k is answered with something
\* that is not an array, the request fails at once with the 500 response,
\* after exactly one list-directory call and without a retry, and the
\* listing cache is left as it was: nothing is stored under k.
C17_NonArrayIsNotMemoized ==
    [][\A s \in Slots :
          /\ (hist'[s].nonArray /\ ~hist[s].nonArray)
                => /\ pc[s] = "awaitList" /\ pc'[s] = "done"
                   /\ listCalls'[s] = 1
                   /\ resp'[s].status = 500
                   /\ resp'[s].body = <<"An internal error occurred">>
                   /\ resp'[s].logged = <<"Unable to fetch templates from GitHub">>
                   /\ ~hist'[s].gotListing
                   /\ examplesCache' = examplesCache
          /\ (hist[s].nonArray /\ pc[s] # "idle")
                => /\ pc[s] = "done"
                   /\ pc'[s] \in {"done", "idle"}
                   /\ listCalls'[s] \in {0, 1}]_vars

C17_Witness ==
    \E s \in Slots :
        /\ pc[s] = "done"
        /\ hist[s].nonArray
        /\ listCalls[s] = 1
        /\ resp[s].status = 500
        /\ ListKeyOf(req[s]) \notin DOMAIN examplesCache

\* The release lookup of slot s for ref r is answered in this step.
Answers(s, r) ==
    /\ pc[s] = "awaitRelease" /\ pc'[s] = "parsed"
    /\ RefOf(req[s]) = r

\* C18 as stated: once the release cache holds a value for a key r, that
\* value is never replaced by a different one, also when requests overlap.
C18_AsStated ==
    [][\A r \in DOMAIN releaseCache :
          /\ r \in DOMAIN releaseCache'
          /\ releaseCache'[r] = releaseCache[r]]_vars

\* C18, amended: a key of the release cache is never removed and no release
\* lookup for r is issued while the cache holds a value for r; the value of
\* r is replaced only by the answer to a lookup that was already in flight
\* when the value was stored, so once no lookup for r is in flight the value
\* and the verdict of validate(r) no longer change.
C18_VerdictStableOnceQuiet ==
    [][/\ \A r \in DOMAIN releaseCache :
             /\ r \in DOMAIN releaseCache'
             /\ releaseCache'[r] # releaseCache[r]
                   => \E s \in Slots : Answers(s, r) /\ relCalls[s] = 1
             /\ (\A s \in Slots : ~(pc[s] = "awaitRelease" /\ RefOf(req[s]) = r))
                   => /\ releaseCache'[r] = releaseCache[r]
                      /\ \A s \in Slots :
                            ~(pc'[s] = "awaitRelease" /\ RefOf(req'[s]) = r)
       /\ \A s \in Slots :
             (pc[s] # "awaitRelease" /\ pc'[s] = "awaitRelease")
             => RefOf(req'[s]) \notin DOMAIN releaseCache
       /\ \A s \in Slots :
             (Starts(s) /\ NeedsRelease(req'[s]) /\ RefOf(req'[s]) \in DOMAIN releaseCache)
             => release'[s] = releaseCache[RefOf(req'[s])]]_vars

C18_Witness ==
    \E s \in Slots, o \in Slots :
        /\ s # o
        /\ hist[s].relStatus = 404 /\ release[s] = "null"
        /\ hist[o].relStatus = 200 /\ release[o] = "found"
        /\ RefOf(req[s]) = RefOf(req[o])
        /\ releaseCache[RefOf(req[s])] = "found"

\* C19: every request eventually receives exactly one response when each
\* call it issues eventually completes or fails; the response is a
\* redirect, the 404 or the fixed 500; a request issues at most one release
\* lookup and one listing fetch; a step or a failure of another request
\* leaves its own progress and response untouched.
C19_EveryRequestIsAnsweredOnce ==
    /\ \A s \in Slots : (pc[s] # "idle") ~> (pc[s] = "done")
    /\ [](\A s \in Slots :
             /\ relCalls[s] \in {0, 1} /\ listCalls[s] \in {0, 1}
             /\ pc[s] # "done" => resp[s].status = 0
             /\ pc[s] = "done"
                   => /\ resp[s].status \in {302, 404, 500}
                      /\ resp[s].status = 500
                            => resp[s].body = <<"An internal error occurred">>)
    /\ [][\A s \in Slots :
             /\ pc[s] = "done"
                   => (pc'[s] = "idle" \/ (pc'[s] = "done" /\ resp'[s] = resp[s]))
             /\ \A o \in Slots \ {s} :
                   Steps(o)
                   => /\ pc'[s] = pc[s] /\ resp'[s] = resp[s]
                      /\ release'[s] = release[s] /\ examples'[s] = examples[s]
                      /\ relCalls'[s] = relCalls[s] /\ listCalls'[s] = listCalls[s]
             /\ (pc[s] # "done" /\ pc'[s] = "done" /\ resp'[s].status = 500)
                   => (examplesCache' = examplesCache /\ releaseCache' = releaseCache)]_vars

C19_Witness ==
    \E s \in Slots, o \in Slots :
        /\ s # o
        /\ pc[s] = "done" /\ pc[o] = "done"
        /\ listCalls[s] = 1 /\ listCalls[o] = 1
        /\ relCalls[s] = 1 /\ relCalls[o] = 1
        /\ resp[s].status = 500 /\ resp[s].logged = <<"fetch failed">>
        /\ resp[o].status = 302

\* C20: an entry built for listing key k from an upstream entry named n with
\* html_url u has github = u, the one constant netlify URL, and stackblitz,
\* codesandbox and gitpod URLs that embed k (the normalized ref, "main" for
\* ref "next") and n; hence ?on=netlify redirects every existing template at
\* every ref to the same URL.
C20_EntryUrls ==
    /\ \A k \in DOMAIN examplesCache : \A i \in 1..Len(examplesCache[k]) :
          LET e == examplesCache[k][i]
              tail == k \o <<"/examples/">> \o e.name
          IN /\ e.netlify = <<"https://astro.build">>
             /\ e.stackblitz
                   = <<"https://stackblitz.com/github/withastro/astro/tree/">> \o tail
             /\ e.codesandbox
                   = <<"https://codesandbox.io/p/sandbox/github/withastro/astro/tree/">> \o tail
             /\ e.gitpod
                   = <<"https://gitpod.io/#https://github.com/withastro/astro/tree/">> \o tail
    /\ \A s \in Slots :
          /\ (hist[s].gotListing /\ listCalls[s] = 1)
                => /\ examplesCache[ListKeyOf(req[s])] = examples[s]
                   /\ \A i \in 1..Len(examples[s]) : \E j \in 1..Len(hist[s].items) :
                         /\ hist[s].items[j].name = examples[s][i].name
                         /\ hist[s].items[j].html_url = examples[s][i].github
          /\ (Answered(s) /\ req[s].on = "netlify" /\ resp[s].status = 302)
                => resp[s].location = <<"https://astro.build">>
          /\ ( /\ Answered(s) /\ resp[s].status = 302
               /\ req[s] = [pathname |-> <<"/", "b", "@", "next">>, on |-> "gitpod"] )
                => resp[s].location =
                      <<"https://gitpod.io/#https://github.com/withastro/astro/tree/",
                        "main", "/examples/", "b">>

C20_Witness ==
    /\ { <<"main">>, <<"astro@", "v1">> } \subseteq DOMAIN examplesCache
    /\ Len(examplesCache[<<"main">>]) = 2
    /\ \E s \in Slots :
          /\ Answered(s)
          /\ req[s] = [pathname |-> <<"/", "b", "@", "v1">>, on |-> "netlify"]
          /\ resp[s].status = 302
          /\ resp[s].location = <<"https://astro.build">>

====
